---- MODULE Spec2Model ----
(***************************************************************************)
(* lit-builder: build() compiles a tree of BuildElement objects into the   *)
(* (strings, values) pair handed to Lit's html tag (src/src/builder.ts).   *)
(*                                                                         *)
(* A JavaScript string is a sequence of one-character strings.  Every      *)
(* JavaScript value is a record tagged by t:                               *)
(*   undefined, null, string (s), number (n), boolean (b), function (id),  *)
(*   directive (id), array (a), map (e: entries [k, v] in declared order), *)
(*   record (f: a function from the field names present to their values).  *)
(* A BuildElement or a TemplateResult is a "record"; its attributes,       *)
(* properties and events are "map"s, its directives and children "array"s. *)
(***************************************************************************)
EXTENDS Integers, Sequences, FiniteSets, TLC

VARIABLES elements, strings, values, stack, status, handed

vars == <<elements, strings, values, stack, status, handed>>

----------------------------------------------------------------------------
(* Bounds of the explored inputs.                                          *)

MaxEntries == 2
MaxChildren == 2
MaxDirectives == 2
MaxTop == 2
MaxName == 3

----------------------------------------------------------------------------
(* JavaScript values.                                                      *)

Undefined == [t |-> "undefined"]
Null == [t |-> "null"]
Str(s) == [t |-> "string", s |-> s]
Num(n) == [t |-> "number", n |-> n]
Bool(b) == [t |-> "boolean", b |-> b]
Fn(id) == [t |-> "function", id |-> id]
Directive(id) == [t |-> "directive", id |-> id]
Arr(a) == [t |-> "array", a |-> a]
Map(e) == [t |-> "map", e |-> e]
Rec(f) == [t |-> "record", f |-> f]
Entry(k, v) == [k |-> k, v |-> v]

\* typeof v
typeof(v) ==
  IF v.t \in {"null", "array", "map", "record", "directive"} THEN "object" ELSE v.t

\* ToBoolean(v), as used by `if (x)` and `!x`
truthy(v) ==
  CASE v.t \in {"undefined", "null"} -> FALSE
    [] v.t = "string" -> v.s # <<>>
    [] v.t = "number" -> v.n # 0
    [] v.t = "boolean" -> v.b
    [] OTHER -> TRUE

\* `field in element`
hasField(element, field) == element.t = "record" /\ field \in DOMAIN element.f

\* element.field: undefined when the field is absent
get(element, field) ==
  IF element.t = "record" /\ field \in DOMAIN element.f THEN element.f[field] ELSE Undefined

Digits == <<"0", "1", "2", "3", "4", "5", "6", "7", "8", "9">>

IdentChars ==
  { "a", "b", "c", "d", "e", "f", "g", "h", "i", "j", "k", "l", "m",
    "n", "o", "p", "q", "r", "s", "t", "u", "v", "w", "x", "y", "z",
    "A", "B", "C", "D", "E", "F", "G", "H", "I", "J", "K", "L", "M",
    "N", "O", "P", "Q", "R", "S", "T", "U", "V", "W", "X", "Y", "Z",
    "0", "1", "2", "3", "4", "5", "6", "7", "8", "9", "-", "_" }

RECURSIVE numberToString(_)
\* Number.prototype.toString for a non-negative integer
numberToString(n) ==
  IF n < 10 THEN <<Digits[n + 1]>>
  ELSE numberToString(n \div 10) \o <<Digits[(n % 10) + 1]>>

\* value.toString(): [ok, s]; null and undefined have no toString (TypeError)
toString(v) ==
  CASE v.t = "string" -> [ok |-> TRUE, s |-> v.s]
    [] v.t = "number" -> [ok |-> TRUE, s |-> numberToString(v.n)]
    [] v.t = "boolean" ->
         [ok |-> TRUE, s |-> IF v.b THEN <<"t", "r", "u", "e">> ELSE <<"f", "a", "l", "s", "e">>]
    [] OTHER -> [ok |-> FALSE, s |-> <<>>]

RECURSIVE replaceAll(_, _, _)
\* str.replace(/c/g, rep) for a one-character pattern c
replaceAll(str, c, rep) ==
  IF str = <<>> THEN <<>>
  ELSE (IF Head(str) = c THEN rep ELSE <<Head(str)>>) \o replaceAll(Tail(str), c, rep)

RECURSIVE removeNotIn(_, _)
\* str.replace(/[^class]/g, '')
removeNotIn(str, class) ==
  IF str = <<>> THEN <<>>
  ELSE (IF Head(str) \in class THEN <<Head(str)>> ELSE <<>>) \o removeNotIn(Tail(str), class)

RECURSIVE removeFirstNotIn(_, _)
\* str.replace(/[^class]/, ''): without the g flag only the first match goes
removeFirstNotIn(str, class) ==
  IF str = <<>> THEN <<>>
  ELSE IF Head(str) \in class THEN <<Head(str)>> \o removeFirstNotIn(Tail(str), class)
  ELSE Tail(str)

sanitizeFirstOnly(str) == removeFirstNotIn(str, IdentChars)

sanitize(str) == removeNotIn(str, IdentChars)

\* the chain without its last replace: the double quote is left as it is
escapeAttributeWithoutQuote(s) ==
  replaceAll(
    replaceAll(
      replaceAll(s, "<", <<"&", "l", "t", ";">>),
      ">", <<"&", "g", "t", ";">>),
    "&", <<"&", "a", "m", "p", ";">>)

\* the four chained replaces of an attribute value, in the order the code applies them
escapeAttribute(s) ==
  replaceAll(
    replaceAll(
      replaceAll(
        replaceAll(s, "<", <<"&", "l", "t", ";">>),
        ">", <<"&", "g", "t", ";">>),
      "&", <<"&", "a", "m", "p", ";">>),
    "\"", <<"&", "q", "u", "o", "t", ";">>)

----------------------------------------------------------------------------
(* for (const key in map): integer-like keys first, ascending, then the    *)
(* other keys in the order they were declared.                             *)

isArrayIndex(key) ==
  /\ key # <<>>
  /\ \A j \in 1..Len(key) : \E d \in 1..10 : Digits[d] = key[j]
  /\ (Len(key) > 1 => key[1] # "0")

digitValue(c) == (CHOOSE d \in 1..10 : Digits[d] = c) - 1

RECURSIVE toNumber(_)
toNumber(key) ==
  IF key = <<>> THEN 0
  ELSE 10 * toNumber(SubSeq(key, 1, Len(key) - 1)) + digitValue(key[Len(key)])

RECURSIVE ascending(_)
\* the keys of the set, by ascending numeric value
ascending(keys) ==
  IF keys = {} THEN <<>>
  ELSE LET least == CHOOSE k \in keys : \A o \in keys : toNumber(k) <= toNumber(o)
       IN <<least>> \o ascending(keys \ {least})

declaredKeys(map) == [j \in 1..Len(map.e) |-> map.e[j].k]

forInKeysDeclaredOrder(map) == declaredKeys(map)

forInKeys(map) ==
  LET keys == declaredKeys(map)
      isIndex(k) == isArrayIndex(k)
  IN ascending({keys[j] : j \in {j \in 1..Len(keys) : isIndex(keys[j])}})
       \o SelectSeq(keys, LAMBDA k : ~isIndex(k))

\* map[key]
lookup(map, key) ==
  IF \E j \in 1..Len(map.e) : map.e[j].k = key
  THEN map.e[CHOOSE j \in 1..Len(map.e) : map.e[j].k = key].v
  ELSE Undefined

----------------------------------------------------------------------------
(* Text the compiler writes.                                               *)

openingTagText(tagName) == <<"<">> \o tagName

attributeText(key, value) == <<" ">> \o sanitize(key) \o <<"=", "\"">> \o value \o <<"\"">>

propertyMarker(key) == <<" ", ".">> \o sanitize(key) \o <<"=">>

eventMarker(key) == <<" ", "@">> \o sanitize(key) \o <<"=">>

directiveMarker == <<" ">>

closingTagText(tagName) == <<"<", "/">> \o tagName \o <<">">>

\* strings[strings.length - 1] += text
appendOpen(strs, text) == [strs EXCEPT ![Len(strs)] = @ \o text]

isSkippedWhenFalsy(value) == ~truthy(value)

\* the `!== undefined` test of an attribute, property or event value, negated
isSkipped(value) == value = Undefined

\* the `typeof element === 'string'` test
isText(element) == typeof(element) = "string"

isTemplateResultByTagAbsence(element) ==
  /\ typeof(element) = "object"
  /\ hasField(element, "strings") /\ hasField(element, "values")
  /\ ~hasField(element, "name")

\* `'strings' in element` on null: the right-hand side of `in` is no object (TypeError)
inThrows(element) == typeof(element) = "object" /\ element = Null

\* the TemplateResult test: an object with a `strings` and a `values` field
isTemplateResult(element) ==
  /\ typeof(element) = "object"
  /\ hasField(element, "strings") /\ hasField(element, "values")

isFragmentBySanitizedName(element) ==
  LET name == get(element, "name")
  IN IF name.t = "string" THEN sanitize(name.s) = <<>> ELSE ~truthy(name)

\* the fragment test: `!element.name`
isFragment(element) == ~truthy(get(element, "name"))

----------------------------------------------------------------------------
(* The call stack.  A frame is one activation of build or _build: el is    *)
(* its argument, pc the statement it is at, i its loop index and tagName   *)
(* the local of _build.  The head of the stack is the running activation.  *)

Frame(fn, el, pc) == [fn |-> fn, el |-> el, pc |-> pc, i |-> 1, tagName |-> <<>>]

top == stack[1]

running == status = "running" /\ stack # <<>>

at(fn, pc) == running /\ top.fn = fn /\ top.pc = pc

\* the running activation moves to statement pc, its loop index reset
goto(pc) == <<[top EXCEPT !.pc = pc, !.i = 1]>> \o Tail(stack)

\* the running activation moves to statement pc and advances its loop index
step(pc) == <<[top EXCEPT !.pc = pc, !.i = @ + 1]>> \o Tail(stack)

\* the running activation advances its loop index and calls _build(child)
call(child) == <<Frame("_build", child, "entry")>> \o step(top.pc)

return == Tail(stack)

\* the keys a for...in loop over element[field] visits, and the loop's current key
loopKeys(field) == forInKeys(get(top.el, field))

loopKey(field) == loopKeys(field)[top.i]

loopValue(field) == lookup(get(top.el, field), loopKey(field))

\* the loop over element[field] is skipped or exhausted
loopOver(field) ==
  IF truthy(get(top.el, field)) THEN top.i > Len(loopKeys(field)) ELSE TRUE

loopAt(field) == truthy(get(top.el, field)) /\ top.i <= Len(loopKeys(field))

\* the array a for...of loop over element[field] visits
loopItems(field) == get(top.el, field).a

itemsOver(field) ==
  IF truthy(get(top.el, field)) THEN top.i > Len(loopItems(field)) ELSE TRUE

itemsAt(field) == truthy(get(top.el, field)) /\ top.i <= Len(loopItems(field))

----------------------------------------------------------------------------
(* build                                                                   *)

\* build calls _build once per element of an array, or once on a single element
BuildCall ==
  /\ at("build", "call")
  /\ IF elements.t = "array"
     THEN top.i <= Len(elements.a) /\ stack' = call(elements.a[top.i])
     ELSE top.i = 1 /\ stack' = call(elements)
  /\ UNCHANGED <<elements, strings, values, status, handed>>

\* build hands strings and values to Lit's html tag and returns
BuildHtml ==
  /\ at("build", "call")
  /\ IF elements.t = "array" THEN top.i > Len(elements.a) ELSE top.i > 1
  /\ handed' = [called |-> TRUE, strings |-> strings, values |-> values]
  /\ status' = "returned"
  /\ stack' = <<>>
  /\ UNCHANGED <<elements, strings, values>>

----------------------------------------------------------------------------
(* _build: the dispatch on the kind of node                                *)

\* the text run through sanitize before it is appended
TextSanitized ==
  /\ at("_build", "entry")
  /\ isText(top.el)
  /\ strings' = appendOpen(strings, sanitize(top.el.s))
  /\ stack' = return
  /\ UNCHANGED <<elements, values, status, handed>>

Text ==
  /\ at("_build", "entry")
  /\ isText(top.el)
  /\ strings' = appendOpen(strings, top.el.s)
  /\ stack' = return
  /\ UNCHANGED <<elements, values, status, handed>>

TemplateTestThrow ==
  /\ at("_build", "entry")
  /\ ~isText(top.el)
  /\ inThrows(top.el)
  /\ status' = "threw"
  /\ stack' = <<>>
  /\ UNCHANGED <<elements, strings, values, handed>>

TemplateResult ==
  /\ at("_build", "entry")
  /\ ~isText(top.el)
  /\ ~inThrows(top.el)
  /\ isTemplateResult(top.el)
  /\ values' = Append(values, top.el)
  /\ strings' = Append(strings, <<>>)
  /\ stack' = return
  /\ UNCHANGED <<elements, status, handed>>

\* a fragment with children calls _build on the first of them; one without returns
Fragment ==
  /\ at("_build", "entry")
  /\ ~isText(top.el)
  /\ ~inThrows(top.el)
  /\ ~isTemplateResult(top.el)
  /\ isFragment(top.el)
  /\ stack' = IF truthy(get(top.el, "children")) /\ loopItems("children") # <<>>
              THEN <<Frame("_build", loopItems("children")[1], "entry"),
                     [top EXCEPT !.pc = "fragmentChildren", !.i = 2]>> \o Tail(stack)
              ELSE return
  /\ UNCHANGED <<elements, strings, values, status, handed>>

FragmentChild ==
  /\ at("_build", "fragmentChildren")
  /\ top.i <= Len(loopItems("children"))
  /\ stack' = call(loopItems("children")[top.i])
  /\ UNCHANGED <<elements, strings, values, status, handed>>

\* without the `return` that ends the fragment branch, _build goes on to
\* sanitize(element.name) with no name: TypeError
FragmentFallsThrough ==
  /\ at("_build", "fragmentChildren")
  /\ top.i > Len(loopItems("children"))
  /\ status' = "threw"
  /\ stack' = <<>>
  /\ UNCHANGED <<elements, strings, values, handed>>

FragmentReturn ==
  /\ at("_build", "fragmentChildren")
  /\ top.i > Len(loopItems("children"))
  /\ stack' = return
  /\ UNCHANGED <<elements, strings, values, status, handed>>

OpeningTag ==
  /\ at("_build", "entry")
  /\ ~isText(top.el)
  /\ ~inThrows(top.el)
  /\ ~isTemplateResult(top.el)
  /\ ~isFragment(top.el)
  /\ LET tagName == sanitize(get(top.el, "name").s)
     IN /\ strings' = appendOpen(strings, openingTagText(tagName))
        /\ stack' = <<[top EXCEPT !.pc = "attributes", !.i = 1, !.tagName = tagName]>>
                      \o Tail(stack)
  /\ UNCHANGED <<elements, values, status, handed>>

----------------------------------------------------------------------------
(* _build: a tagged element, section by section                            *)

AttributesDone ==
  /\ at("_build", "attributes")
  /\ loopOver("attributes")
  /\ stack' = goto("properties")
  /\ UNCHANGED <<elements, strings, values, status, handed>>

AttributeSkip ==
  /\ at("_build", "attributes")
  /\ loopAt("attributes")
  /\ isSkipped(loopValue("attributes"))
  /\ stack' = step("attributes")
  /\ UNCHANGED <<elements, strings, values, status, handed>>

Attribute ==
  /\ at("_build", "attributes")
  /\ loopAt("attributes")
  /\ ~isSkipped(loopValue("attributes"))
  /\ toString(loopValue("attributes")).ok
  /\ strings' = appendOpen(strings,
        attributeText(loopKey("attributes"),
                      escapeAttribute(toString(loopValue("attributes")).s)))
  /\ stack' = step("attributes")
  /\ UNCHANGED <<elements, values, status, handed>>

\* element.attributes[key].toString() on a value that has no toString: TypeError
AttributeThrow ==
  /\ at("_build", "attributes")
  /\ loopAt("attributes")
  /\ ~isSkipped(loopValue("attributes"))
  /\ ~toString(loopValue("attributes")).ok
  /\ status' = "threw"
  /\ stack' = <<>>
  /\ UNCHANGED <<elements, strings, values, handed>>

PropertiesDone ==
  /\ at("_build", "properties")
  /\ loopOver("properties")
  /\ stack' = goto("events")
  /\ UNCHANGED <<elements, strings, values, status, handed>>

PropertySkip ==
  /\ at("_build", "properties")
  /\ loopAt("properties")
  /\ isSkipped(loopValue("properties"))
  /\ stack' = step("properties")
  /\ UNCHANGED <<elements, strings, values, status, handed>>

PropertyMarker ==
  /\ at("_build", "properties")
  /\ loopAt("properties")
  /\ ~isSkipped(loopValue("properties"))
  /\ strings' = appendOpen(strings, propertyMarker(loopKey("properties")))
  /\ stack' = <<[top EXCEPT !.pc = "propertyPush"]>> \o Tail(stack)
  /\ UNCHANGED <<elements, values, status, handed>>

\* values.push(value) without the strings.push('') that follows it
PropertyPushWithoutFragment ==
  /\ at("_build", "propertyPush")
  /\ values' = Append(values, loopValue("properties"))
  /\ stack' = step("properties")
  /\ UNCHANGED <<elements, strings, status, handed>>

PropertyPush ==
  /\ at("_build", "propertyPush")
  /\ values' = Append(values, loopValue("properties"))
  /\ strings' = Append(strings, <<>>)
  /\ stack' = step("properties")
  /\ UNCHANGED <<elements, status, handed>>

EventsDone ==
  /\ at("_build", "events")
  /\ loopOver("events")
  /\ stack' = goto("directives")
  /\ UNCHANGED <<elements, strings, values, status, handed>>

EventSkip ==
  /\ at("_build", "events")
  /\ loopAt("events")
  /\ isSkipped(loopValue("events"))
  /\ stack' = step("events")
  /\ UNCHANGED <<elements, strings, values, status, handed>>

EventMarker ==
  /\ at("_build", "events")
  /\ loopAt("events")
  /\ ~isSkipped(loopValue("events"))
  /\ strings' = appendOpen(strings, eventMarker(loopKey("events")))
  /\ stack' = <<[top EXCEPT !.pc = "eventPush"]>> \o Tail(stack)
  /\ UNCHANGED <<elements, values, status, handed>>

EventPush ==
  /\ at("_build", "eventPush")
  /\ values' = Append(values, loopValue("events"))
  /\ strings' = Append(strings, <<>>)
  /\ stack' = step("events")
  /\ UNCHANGED <<elements, status, handed>>

DirectivesDone ==
  /\ at("_build", "directives")
  /\ itemsOver("directives")
  /\ stack' = goto("closeOpeningTag")
  /\ UNCHANGED <<elements, strings, values, status, handed>>

DirectiveMarker ==
  /\ at("_build", "directives")
  /\ itemsAt("directives")
  /\ strings' = appendOpen(strings, directiveMarker)
  /\ stack' = <<[top EXCEPT !.pc = "directivePush"]>> \o Tail(stack)
  /\ UNCHANGED <<elements, values, status, handed>>

DirectivePush ==
  /\ at("_build", "directivePush")
  /\ values' = Append(values, loopItems("directives")[top.i])
  /\ strings' = Append(strings, <<>>)
  /\ stack' = step("directives")
  /\ UNCHANGED <<elements, status, handed>>

CloseOpeningTag ==
  /\ at("_build", "closeOpeningTag")
  /\ strings' = appendOpen(strings, <<">">>)
  /\ stack' = goto("children")
  /\ UNCHANGED <<elements, values, status, handed>>

Child ==
  /\ at("_build", "children")
  /\ itemsAt("children")
  /\ stack' = call(loopItems("children")[top.i])
  /\ UNCHANGED <<elements, strings, values, status, handed>>

ChildrenDone ==
  /\ at("_build", "children")
  /\ itemsOver("children")
  /\ stack' = goto("closingTag")
  /\ UNCHANGED <<elements, strings, values, status, handed>>

ClosingTag ==
  /\ at("_build", "closingTag")
  /\ strings' = appendOpen(strings, closingTagText(top.tagName))
  /\ stack' = return
  /\ UNCHANGED <<elements, values, status, handed>>

----------------------------------------------------------------------------
(* The inputs explored.                                                    *)

Absent == [t |-> "absent"]

\* an object literal with the fields that are given (not Absent)
Obj(r) == Rec([g \in {h \in DOMAIN r : r[h] # Absent} |-> r[g]])

El(name, attributes, properties, events, directives, children) ==
  Obj([name |-> name, attributes |-> attributes, properties |-> properties,
       events |-> events, directives |-> directives, children |-> children])

Tag(name, children) == El(Str(name), Absent, Absent, Absent, Absent, children)

\* a TemplateResult of Lit: html`T`
Template(id) ==
  Rec([strings |-> Arr(<<Str(<<"T">>)>>), values |-> Arr(<<>>), litType |-> Num(id)])

Seqs(S, lo, hi) == UNION {[1..m -> S] : m \in lo..hi}

\* the object literals with at most n entries, keys in K (distinct), values in V
Maps(K, V, n) ==
  {Map(e) : e \in {q \in Seqs({Entry(k, v) : k \in K, v \in V}, 0, n) :
                     \A a, b \in 1..Len(q) : q[a].k = q[b].k => a = b}}

sA == <<"a">>
sDiv == <<"d", "i", "v">>
sP == <<"p">>
sUl == <<"u", "l">>
sLi == <<"l", "i">>
sSpan == <<"s", "p", "a", "n">>
sInput == <<"i", "n", "p", "u", "t">>
sHref == <<"h", "r", "e", "f">>
sClick == <<"c", "l", "i", "c", "k">>
sSymbols == <<"!", "<">>
sMixed == <<"b", ">", "c">>
sSpecial == <<"<", ">", "&", "\"">>

Falsy == {Str(<<>>), Num(0), Bool(FALSE)}

AttributeInputs ==
  {El(Str(sA), m, Absent, Absent, Absent, Absent) :
     m \in Maps({sHref, sMixed, <<"1">>},
                {Undefined, Null, Str(sSpecial)} \cup Falsy, MaxEntries)}

PropertyInputs ==
  {El(Str(sDiv), Absent, m, Map(<<Entry(sClick, Fn(1))>>), Arr(<<Directive(1)>>),
      Arr(<<Template(1)>>)) :
     m \in Maps({<<"x">>, <<"y", ".">>, <<"0">>}, {Undefined, Num(0), Num(1)}, MaxEntries)}

EventInputs ==
  {El(Str(sDiv), Absent, Map(<<Entry(<<"x">>, Num(1))>>), m, Absent, Absent) :
     m \in Maps({sClick, <<"7">>, <<"1", "0">>}, {Undefined, Null, Fn(1)}, MaxEntries)}

DirectiveInputs ==
  {El(Str(sInput), Absent, Absent, Map(<<Entry(sClick, Fn(1))>>), Arr(d),
      Arr(<<Tag(sP, Absent), Template(1)>>)) :
     d \in Seqs({Directive(1), Directive(2)}, 0, MaxDirectives)}

FalsyInputs ==
  {El(Str(sDiv), Map(<<Entry(sA, v)>>), Map(<<Entry(sA, v)>>), Map(<<Entry(sA, v)>>),
      Absent, Absent) : v \in Falsy \cup {Undefined, Str(<<"1">>)}}

Names == {Absent, Undefined, Str(<<>>), Str(sSymbols), Str(sP)}

Leaves ==
  {Str(sSpecial), Template(1), Tag(sP, Absent),
   El(Str(sP), Absent, Map(<<Entry(<<"x">>, Num(1))>>), Absent, Absent, Absent)}
    \cup {El(n, Absent, Absent, Absent, Absent, Absent) : n \in {Absent, Str(<<>>), Str(sSymbols)}}

TreeInputs ==
  {El(n, Absent, Absent, Absent, Absent, c) :
     n \in Names, c \in {Absent} \cup {Arr(q) : q \in Seqs(Leaves, 0, MaxChildren)}}

\* fragment nodes that carry attributes, properties, events and directives
TaglessInputs ==
  {El(n, Map(<<Entry(sA, v)>>), Map(<<Entry(sA, Num(1))>>), Map(<<Entry(sClick, Fn(1))>>),
      Arr(<<Directive(1)>>), c) :
     n \in {Absent, Str(<<>>), Null},
     v \in {Str(<<"1">>), Null},
     c \in {Absent, Arr(<<Tag(sSpan, Arr(<<Str(<<"x">>)>>)), Str(<<"B">>), Template(1)>>)}}

\* objects with a `strings` and/or a `values` field next to BuildElement fields
DuckTypedInputs ==
  {Tag(sDiv, Arr(<<
     Obj([strings |-> x, values |-> y, name |-> n,
          attributes |-> Map(<<Entry(sA, Str(<<"1">>))>>),
          children |-> Arr(<<Str(<<"B">>)>>)])>>)) :
     x \in {Absent, Undefined, Arr(<<>>)}, y \in {Absent, Arr(<<>>)},
     n \in {Absent, Str(sP)}}

\* every short string as a tag name and as an attribute, property and event key
NameInputs ==
  UNION {{Tag(s, Absent),
          El(Str(<<"p">> \o s), Map(<<Entry(s, Str(<<"1">>))>>), Map(<<Entry(s, Num(1))>>),
             Map(<<Entry(s, Fn(1))>>), Absent, Absent)} :
           s \in Seqs({"a", "-", "<", "!"}, 0, MaxName)}

Examples ==
  { \* {name:'a', attributes:{href:'<>&"'}}
    El(Str(sA), Map(<<Entry(sHref, Str(sSpecial))>>), Absent, Absent, Absent, Absent),
    \* {name:'div', attributes:{a:'1', b:undefined}}
    El(Str(sDiv), Map(<<Entry(sA, Str(<<"1">>)), Entry(<<"b">>, Undefined)>>),
       Absent, Absent, Absent, Absent),
    \* {name:'div', properties:{x:1, y:2}, events:{click:fn}}
    El(Str(sDiv), Absent, Map(<<Entry(<<"x">>, Num(1)), Entry(<<"y">>, Num(2))>>),
       Map(<<Entry(sClick, Fn(1))>>), Absent, Absent),
    \* {name:'input', directives:[D]}
    El(Str(sInput), Absent, Absent, Absent, Arr(<<Directive(1)>>), Absent),
    \* {name:'ul', children:[{name:'li', children:['A']}, 'B', {name:'li', children:['C']}]}
    Tag(sUl, Arr(<<Tag(sLi, Arr(<<Str(<<"A">>)>>)), Str(<<"B">>),
                   Tag(sLi, Arr(<<Str(<<"C">>)>>))>>)),
    \* {children:[{name:'span', children:['x']}]} and {name:'span', children:['x']}
    El(Absent, Absent, Absent, Absent, Absent, Arr(<<Tag(sSpan, Arr(<<Str(<<"x">>)>>))>>)),
    Tag(sSpan, Arr(<<Str(<<"x">>)>>)) }

sQuoted == <<"\"", "x", ">">>

sBroken == <<"a", "\"", "<">>

\* attributes whose key and value are made of the characters that end a quoted value or a tag
MarkupInputs ==
  {El(Str(sA), Map(<<Entry(k, Str(v))>>), Absent, Absent, Absent, Absent) :
     k \in {sQuoted, sBroken}, v \in Seqs({"\"", "<", ">", "&"}, 0, MaxName)}

\* JSON.parse('{"name":"div","children":["B",null]}') and the like
NullChildInputs ==
  {El(n, Absent, Absent, Absent, Absent, Arr(<<Str(<<"B">>), Null>>)) : n \in {Absent, Str(sDiv)}}

TopLevel ==
  {Tag(sP, Absent),
   El(Absent, Absent, Absent, Absent, Absent, Arr(<<Str(<<"x">>), Template(1)>>)),
   El(Str(sP), Map(<<Entry(sA, Null)>>), Absent, Absent, Absent, Absent)}

ArrayInputs == {Arr(q) : q \in Seqs(TopLevel, 0, MaxTop)}

Inputs ==
  AttributeInputs \cup PropertyInputs \cup EventInputs \cup DirectiveInputs
    \cup FalsyInputs \cup TreeInputs \cup TaglessInputs \cup DuckTypedInputs
    \cup NameInputs \cup MarkupInputs \cup NullChildInputs \cup Examples \cup ArrayInputs

----------------------------------------------------------------------------

Init ==
  /\ elements \in Inputs
  /\ strings = << <<>> >>
  /\ values = <<>>
  /\ stack = <<Frame("build", elements, "call")>>
  /\ status = "running"
  /\ handed = [called |-> FALSE, strings |-> <<>>, values |-> <<>>]

Next ==
  \/ BuildCall \/ BuildHtml
  \/ Text \/ TemplateTestThrow \/ TemplateResult
  \/ Fragment \/ FragmentChild \/ FragmentReturn
  \/ OpeningTag
  \/ AttributesDone \/ AttributeSkip \/ Attribute \/ AttributeThrow
  \/ PropertiesDone \/ PropertySkip \/ PropertyMarker \/ PropertyPush
  \/ EventsDone \/ EventSkip \/ EventMarker \/ EventPush
  \/ DirectivesDone \/ DirectiveMarker \/ DirectivePush
  \/ CloseOpeningTag
  \/ Child \/ ChildrenDone
  \/ ClosingTag

Spec == Init /\ [][Next]_vars

----------------------------------------------------------------------------
(* Notions the properties below are stated in.                             *)

\* the characters of str that are in [A-Za-z0-9-_], in their order
identifierPart(str) == SelectSeq(str, LAMBDA c : c \in IdentChars)

entity(c) ==
  CASE c = "<" -> <<"&", "l", "t", ";">>
    [] c = ">" -> <<"&", "g", "t", ";">>
    [] c = "&" -> <<"&", "a", "m", "p", ";">>
    [] c = "\"" -> <<"&", "q", "u", "o", "t", ";">>
    [] OTHER -> <<c>>

RECURSIVE entityEncoded(_)
\* str with each of < > & " replaced by its entity and every other character kept
entityEncoded(str) ==
  IF str = <<>> THEN <<>> ELSE entity(Head(str)) \o entityEncoded(Tail(str))

endsWith(str, suffix) ==
  /\ Len(suffix) <= Len(str)
  /\ SubSeq(str, Len(str) - Len(suffix) + 1, Len(str)) = suffix

\* the running activation of _build is in the loop over element[field], at an entry
inLoop(field) == at("_build", field) /\ loopAt(field)

\* the text a step appended to the open fragment, when it opened no new fragment
appended ==
  SubSeq(strings'[Len(strings')], Len(strings[Len(strings)]) + 1, Len(strings'[Len(strings')]))

appendsOnly(text) == strings' = appendOpen(strings, text) /\ values' = values

pushes(value) == values' = Append(values, value) /\ strings' = Append(strings, <<>>)

emitsNothing == strings' = strings /\ values' = values

----------------------------------------------------------------------------
\* C1: the accumulators satisfy strings.length = values.length + 1 from the start
\* (strings = [""], values = []) through every step of _build, and when they are
\* handed to html.
C1_LengthInvariant ==
  /\ Len(strings) = Len(values) + 1
  /\ (status = "running" /\ top.fn = "build" /\ top.i = 1
        => strings = << <<>> >> /\ values = <<>>)
  /\ (handed.called
        => handed.strings = strings /\ handed.values = values
             /\ Len(handed.strings) = Len(handed.values) + 1)

C1_Witness == handed.called /\ Len(handed.values) >= 4

\* C2: the text between the quotes of an emitted attribute is the value with each
\* < > & " replaced by exactly &lt; &gt; &amp; &quot; and every other character kept.
C2_AttributeValueEntityEncoded ==
  [][inLoop("attributes") /\ ~isSkipped(loopValue("attributes"))
       /\ toString(loopValue("attributes")).ok
       => appendsOnly(<<" ">> \o identifierPart(loopKey("attributes")) \o <<"=", "\"">>
                        \o entityEncoded(toString(loopValue("attributes")).s) \o <<"\"">>)]_vars

\* C3: an attribute, property or event entry whose value is undefined emits nothing;
\* one whose value is "", 0 or false is emitted like any other: an attribute as
\* key="...", a property or event as its marker followed by one pushed value.
C3_UndefinedSkippedFalsyEmitted ==
  [][/\ \A field \in {"attributes", "properties", "events"} :
          inLoop(field) /\ loopValue(field) = Undefined
            => emitsNothing /\ stack' = step(field)
     /\ inLoop("attributes") /\ loopValue("attributes") \in Falsy \cup {Str(<<"1">>)}
          => /\ values' = values
             /\ Len(strings') = Len(strings)
             /\ appended = <<" ">> \o identifierPart(loopKey("attributes")) \o <<"=", "\"">>
                             \o (CASE loopValue("attributes") = Num(0) -> <<"0">>
                                   [] loopValue("attributes") = Bool(FALSE) ->
                                        <<"f", "a", "l", "s", "e">>
                                   [] OTHER -> loopValue("attributes").s)
                             \o <<"\"">>
     /\ inLoop("properties") /\ loopValue("properties") \in Falsy \cup {Num(1)}
          => /\ appendsOnly(<<" ", ".">> \o identifierPart(loopKey("properties")) \o <<"=">>)
             /\ stack'[1].pc = "propertyPush"
     /\ at("_build", "propertyPush") => pushes(loopValue("properties"))
     /\ inLoop("events") /\ loopValue("events") \in Falsy \cup {Fn(1)}
          => /\ appendsOnly(<<" ", "@">> \o identifierPart(loopKey("events")) \o <<"=">>)
             /\ stack'[1].pc = "eventPush"
     /\ at("_build", "eventPush") => pushes(loopValue("events"))
    ]_vars

sDivA1 == <<"<", "d", "i", "v", " ", "a", "=", "\"", "1", "\"", ">", "<", "/", "d", "i", "v", ">">>

\* {name:'div', attributes:{a:'1', b:undefined}} has compiled to <div a="1"></div>, no value
C3_Witness ==
  /\ handed.called
  /\ elements = El(Str(sDiv), Map(<<Entry(sA, Str(<<"1">>)), Entry(<<"b">>, Undefined)>>),
                   Absent, Absent, Absent, Absent)
  /\ handed.strings = <<sDivA1>>
  /\ handed.values = <<>>

----------------------------------------------------------------------------
(* The values a node is expected to contribute, each with the marker the    *)
(* fragment before it ends with (none for a precompiled fragment).          *)

\* the keys of the map, integer-like keys first by ascending number, the others after
\* them as declared
enumerationOrder(map) ==
  LET K == declaredKeys(map)
      n == Len(K)
      before(a, b) ==
        \/ isArrayIndex(K[a]) /\ isArrayIndex(K[b]) /\ toNumber(K[a]) < toNumber(K[b])
        \/ isArrayIndex(K[a]) /\ ~isArrayIndex(K[b])
        \/ ~isArrayIndex(K[a]) /\ ~isArrayIndex(K[b]) /\ a < b
      p == CHOOSE q \in [1..n -> 1..n] : \A a, b \in 1..n : a < b => before(q[a], q[b])
  IN [j \in 1..n |-> K[p[j]]]

keyOrder(map, declared) == IF declared THEN declaredKeys(map) ELSE enumerationOrder(map)

\* the defined entries of element[field] in the given key order, each with its marker
bindings(element, field, sigil, declared) ==
  LET map == get(element, field)
      keys == IF truthy(map) THEN keyOrder(map, declared) ELSE <<>>
      defined == SelectSeq(keys, LAMBDA k : lookup(map, k) # Undefined)
  IN [j \in 1..Len(defined) |->
        [v |-> lookup(map, defined[j]),
         m |-> <<" ", sigil>> \o identifierPart(defined[j]) \o <<"=">>]]

directiveBindings(element) ==
  LET d == get(element, "directives")
      items == IF truthy(d) THEN d.a ELSE <<>>
  IN [j \in 1..Len(items) |-> [v |-> items[j], m |-> <<" ">>]]

childrenOf(element) ==
  IF truthy(get(element, "children")) THEN get(element, "children").a ELSE <<>>

RECURSIVE contributed(_, _)
RECURSIVE contributedByAll(_, _)

contributed(node, declared) ==
  CASE isText(node) -> <<>>
    [] ~isText(node) /\ isTemplateResult(node) -> <<[v |-> node, m |-> <<>>]>>
    [] ~isText(node) /\ ~isTemplateResult(node) /\ isFragment(node) ->
         contributedByAll(childrenOf(node), declared)
    [] OTHER ->
         bindings(node, "properties", ".", declared)
           \o bindings(node, "events", "@", declared)
           \o directiveBindings(node)
           \o contributedByAll(childrenOf(node), declared)

contributedByAll(nodes, declared) ==
  IF nodes = <<>> THEN <<>>
  ELSE contributed(Head(nodes), declared) \o contributedByAll(Tail(nodes), declared)

\* the values handed to html are the expected ones, each after a fragment ending in its marker
valuesAsExpected(declared) ==
  LET expected == IF elements.t = "array" THEN contributedByAll(elements.a, declared)
                  ELSE contributed(elements, declared)
  IN /\ Len(handed.values) = Len(expected)
     /\ \A j \in 1..Len(expected) :
          /\ handed.values[j] = expected[j].v
          /\ endsWith(handed.strings[j], expected[j].m)

sInputSpace == <<"<", "i", "n", "p", "u", "t", " ">>

sCloseInput == <<">", "<", "/", "i", "n", "p", "u", "t", ">">>

\* C4 as claimed: a tagged element contributes its defined properties in declared
\* order, then its defined events in declared order, then its directives, then its
\* children's values; value i follows fragment i, which ends with the value's marker.
C4_ValuesInDeclaredOrder == handed.called => valuesAsExpected(TRUE)

\* C4 as amended: the same, with the properties and the events each in the order
\* for...in enumerates them: integer-like keys first, ascending, then the other
\* keys in declared order.
\* For properties {x:1, y:2} and events {click:fn} the values are [1, 2, fn]; for
\* input with directives [D] the fragments are ["<input ", "></input>"], the values [D].
C4_ValuesInEnumerationOrder ==
  handed.called
    => /\ valuesAsExpected(FALSE)
       /\ (elements = El(Str(sDiv), Absent,
                         Map(<<Entry(<<"x">>, Num(1)), Entry(<<"y">>, Num(2))>>),
                         Map(<<Entry(sClick, Fn(1))>>), Absent, Absent)
             => handed.values = <<Num(1), Num(2), Fn(1)>>)
       /\ (elements = El(Str(sInput), Absent, Absent, Absent, Arr(<<Directive(1)>>), Absent)
             => /\ handed.strings = <<sInputSpace, sCloseInput>>
                /\ handed.values = <<Directive(1)>>)

\* a property keyed "0" declared after one keyed "x" has swapped places with it, on an
\* element that also has an event, a directive and a precompiled child
C4_Witness ==
  /\ handed.called
  /\ elements = El(Str(sDiv), Absent,
                   Map(<<Entry(<<"x">>, Num(1)), Entry(<<"0">>, Num(0))>>),
                   Map(<<Entry(sClick, Fn(1))>>), Arr(<<Directive(1)>>), Arr(<<Template(1)>>))
  /\ handed.values = <<Num(0), Num(1), Fn(1), Directive(1), Template(1)>>

----------------------------------------------------------------------------
\* the running activation of _build has a descriptor without a tag as its argument
taglessRunning ==
  /\ running /\ top.fn = "_build"
  /\ top.el.t = "record"
  /\ ~(hasField(top.el, "strings") /\ hasField(top.el, "values"))
  /\ get(top.el, "name") = Undefined

sSpanX == <<"<", "s", "p", "a", "n", ">", "x", "<", "/", "s", "p", "a", "n", ">">>

\* C5: a descriptor with no tag emits nothing of its own, whatever attributes,
\* properties, events or directives it carries: its activation only calls _build on
\* its children, one after another in order, into the same accumulators, and returns;
\* with no children it returns at once.  So {children:[span["x"]]} and span["x"]
\* compile to the same pair.
C5_TaglessIsItsChildren ==
  /\ [](handed.called
          /\ elements \in {Tag(sSpan, Arr(<<Str(<<"x">>)>>)),
                           El(Absent, Absent, Absent, Absent, Absent,
                              Arr(<<Tag(sSpan, Arr(<<Str(<<"x">>)>>))>>))}
          => handed.strings = <<sSpanX>> /\ handed.values = <<>>)
  /\ [][taglessRunning
          => /\ emitsNothing
             /\ status' = "running"
             /\ LET cs == childrenOf(top.el)
                    done == IF top.pc = "entry" THEN 0 ELSE top.i - 1
                IN IF done < Len(cs)
                   THEN stack' = <<Frame("_build", cs[done + 1], "entry"),
                                   [top EXCEPT !.pc = "fragmentChildren", !.i = done + 2]>>
                                   \o Tail(stack)
                   ELSE stack' = Tail(stack)]_vars

\* a tagless descriptor carrying attributes (one of them null), properties, events and
\* directives has compiled to exactly what its children span["x"], "B" and a
\* precompiled fragment give
C5_Witness ==
  /\ handed.called
  /\ elements = El(Absent, Map(<<Entry(sA, Null)>>), Map(<<Entry(sA, Num(1))>>),
                   Map(<<Entry(sClick, Fn(1))>>), Arr(<<Directive(1)>>),
                   Arr(<<Tag(sSpan, Arr(<<Str(<<"x">>)>>)), Str(<<"B">>), Template(1)>>))
  /\ handed.strings = <<sSpanX \o <<"B">>, <<>> >>
  /\ handed.values = <<Template(1)>>

----------------------------------------------------------------------------
\* the tag name and the attribute, property and event keys of an element
identifiersOf(element) ==
  (IF get(element, "name").t = "string" THEN {get(element, "name").s} ELSE {})
    \cup UNION {IF truthy(get(element, field))
                THEN {get(element, field).e[j].k : j \in 1..Len(get(element, field).e)}
                ELSE {} : field \in {"attributes", "properties", "events"}}

startsWith(str, prefix) == Len(prefix) <= Len(str) /\ SubSeq(str, 1, Len(prefix)) = prefix

taggedAtEntry ==
  /\ at("_build", "entry")
  /\ ~isText(top.el) /\ ~isTemplateResult(top.el) /\ ~isFragment(top.el)

\* C6: sanitize(s) is the subsequence of s of its characters in [A-Za-z0-9-_], so it
\* is idempotent; and a tag name or an attribute, property or event key reaches the
\* fragments only in its sanitized form.
C6_SanitizedIdentifiers ==
  [][/\ running /\ top.fn = "_build" /\ top.el.t = "record"
          => \A s \in identifiersOf(top.el) :
               /\ sanitize(s) = identifierPart(s)
               /\ \A j \in 1..Len(sanitize(s)) : sanitize(s)[j] \in IdentChars
               /\ sanitize(sanitize(s)) = sanitize(s)
     /\ taggedAtEntry
          => appendsOnly(<<"<">> \o identifierPart(get(top.el, "name").s))
     /\ at("_build", "closingTag")
          => appendsOnly(<<"<", "/">> \o identifierPart(get(top.el, "name").s) \o <<">">>)
     /\ inLoop("attributes") /\ strings' # strings
          => startsWith(appended,
                        <<" ">> \o identifierPart(loopKey("attributes")) \o <<"=", "\"">>)
     /\ inLoop("properties") /\ strings' # strings
          => appended = <<" ", ".">> \o identifierPart(loopKey("properties")) \o <<"=">>
     /\ inLoop("events") /\ strings' # strings
          => appended = <<" ", "@">> \o identifierPart(loopKey("events")) \o <<"=">>
    ]_vars

\* the name "a<!" has been emitted as <a></a>
C6_Witness ==
  /\ handed.called
  /\ elements = Tag(<<"a", "<", "!">>, Absent)
  /\ handed.strings = << <<"<", "a", ">", "<", "/", "a", ">">> >>

----------------------------------------------------------------------------
RECURSIVE static(_)
\* the tree holds no defined property, no defined event, no directive and no
\* precompiled fragment
static(node) ==
  CASE node.t = "string" -> TRUE
    [] node.t = "array" -> \A j \in 1..Len(node.a) : static(node.a[j])
    [] node.t = "record" ->
         /\ ~(hasField(node, "strings") /\ hasField(node, "values"))
         /\ \A field \in {"properties", "events"} :
              truthy(get(node, field))
                => \A j \in 1..Len(get(node, field).e) : get(node, field).e[j].v = Undefined
         /\ (truthy(get(node, "directives")) => get(node, "directives").a = <<>>)
         /\ \A j \in 1..Len(childrenOf(node)) : static(childrenOf(node)[j])
    [] OTHER -> FALSE

sUlExample ==
  <<"<", "u", "l", ">", "<", "l", "i", ">", "A", "<", "/", "l", "i", ">", "B",
    "<", "l", "i", ">", "C", "<", "/", "l", "i", ">", "<", "/", "u", "l", ">">>

ulExample ==
  Tag(sUl, Arr(<<Tag(sLi, Arr(<<Str(<<"A">>)>>)), Str(<<"B">>),
                 Tag(sLi, Arr(<<Str(<<"C">>)>>))>>))

\* C7: a text child is appended verbatim to the open fragment and neither pushes a
\* value nor opens a fragment; so a tree with no defined property, no defined event,
\* no directive and no precompiled fragment compiles to no value and one fragment,
\* and ul[li["A"], "B", li["C"]] to <ul><li>A</li>B<li>C</li></ul>.
C7_TextVerbatim ==
  /\ [](handed.called /\ static(elements)
          => handed.values = <<>> /\ Len(handed.strings) = 1)
  /\ [](handed.called /\ elements = ulExample => handed.strings = <<sUlExample>>)
  /\ [][at("_build", "entry") /\ top.el.t = "string"
          => /\ values' = values
             /\ Len(strings') = Len(strings)
             /\ \A j \in 1..Len(strings) - 1 : strings'[j] = strings[j]
             /\ strings'[Len(strings)] = strings[Len(strings)] \o top.el.s]_vars

\* the text <>&" has been appended as it is, after <p> and before </p>
C7_Witness ==
  /\ handed.called
  /\ elements = Tag(sP, Arr(<<Str(sSpecial)>>))
  /\ handed.strings = << <<"<", "p", ">">> \o sSpecial \o <<"<", "/", "p", ">">> >>
  /\ handed.values = <<>>

----------------------------------------------------------------------------
\* C8: the kind of a node is decided in the order text, precompiled fragment,
\* fragment node, tagged element: a non-string node with a `strings` and a `values`
\* field is pushed unchanged as one value, with a new empty open fragment and no
\* text appended, even if it also has a tag, attributes or children.
C8_TemplateResultBeforeTag ==
  [][/\ at("_build", "entry") /\ top.el.t = "record"
          /\ "strings" \in DOMAIN top.el.f /\ "values" \in DOMAIN top.el.f
          => /\ values' = Append(values, top.el)
             /\ strings' = Append(strings, <<>>)
             /\ stack' = Tail(stack)
     /\ at("_build", "entry") /\ top.el.t = "string"
          => values' = values /\ stack' = Tail(stack)
     /\ at("_build", "entry") /\ top.el.t = "record"
          /\ ~("strings" \in DOMAIN top.el.f /\ "values" \in DOMAIN top.el.f)
          => values' = values
               /\ (strings' # strings <=> truthy(get(top.el, "name")))
    ]_vars

\* an object with strings, values, a tag, attributes and children has been pushed as a value
C8_Witness ==
  /\ handed.called
  /\ Len(handed.values) = 1
  /\ {"strings", "values", "name", "attributes", "children"} \subseteq DOMAIN handed.values[1].f
  /\ handed.strings = << <<"<", "d", "i", "v", ">">>, <<"<", "/", "d", "i", "v", ">">> >>

----------------------------------------------------------------------------
\* the running activation of _build is entered with a descriptor whose tag is a
\* string that sanitizes to the empty string
emptySanitizedTagAtEntry ==
  /\ at("_build", "entry") /\ top.el.t = "record"
  /\ ~(hasField(top.el, "strings") /\ hasField(top.el, "values"))
  /\ hasField(top.el, "name")
  /\ get(top.el, "name").t = "string"
  /\ identifierPart(get(top.el, "name").s) = <<>>

sEmptyElement == <<"<", ">", "<", "/", ">">>

\* C9 as claimed: every descriptor with a tag whose sanitized name is empty, the
\* empty string included, is compiled as a tagged element: it emits "<", then its
\* attribute section, and with no other fields exactly <></>.
C9_EmptySanitizedTagIsElement ==
  /\ [][emptySanitizedTagAtEntry
          => appendsOnly(<<"<">>) /\ stack'[1].pc = "attributes"]_vars
  /\ [](handed.called /\ elements \in {Tag(s, Absent) : s \in {<<>>, sSymbols}}
          => handed.strings = <<sEmptyElement>>)

\* C9 as amended: the same for every non-empty tag whose sanitized name is empty;
\* a descriptor whose tag is the empty string is compiled as a fragment node.
C9_NonEmptyTagIsElement ==
  /\ [][emptySanitizedTagAtEntry
          => IF get(top.el, "name").s # <<>>
             THEN appendsOnly(<<"<">>) /\ stack'[1].pc = "attributes"
             ELSE emitsNothing /\ stack'[1].pc # "attributes"]_vars
  /\ [][at("_build", "closingTag") /\ identifierPart(get(top.el, "name").s) = <<>>
          => appendsOnly(<<"<", "/", ">">>)]_vars
  /\ [](handed.called /\ elements = Tag(sSymbols, Absent)
          => handed.strings = <<sEmptyElement>>)
  /\ [](handed.called /\ elements = Tag(<<>>, Absent) => handed.strings = << <<>> >>)

\* the tag "!<" has compiled to <></>
C9_Witness ==
  /\ handed.called
  /\ elements = Tag(sSymbols, Absent)
  /\ handed.strings = <<sEmptyElement>>

----------------------------------------------------------------------------
\* C10: build never ends in an error: compilation never raises an exception.
C10_NeverThrows == status # "threw"

----------------------------------------------------------------------------
\* the number of occurrences of the character c in str
occurrences(str, c) == Cardinality({j \in 1..Len(str) : str[j] = c})

\* C11: the segment emitted for an attribute, key="value", holds exactly two double
\* quotes, the delimiters the compiler writes, and no raw < or >, whatever characters
\* the key and the value held.
C11_AttributeSegmentClosed ==
  [][inLoop("attributes") /\ strings' # strings
       => /\ Len(strings') = Len(strings)
          /\ occurrences(appended, "\"") = 2
          /\ occurrences(appended, "<") = 0
          /\ occurrences(appended, ">") = 0
          /\ appended[Len(appended)] = "\""
          /\ \E j \in 2..Len(appended) - 1 :
               /\ appended[j - 1] = "=" /\ appended[j] = "\""
               /\ \A h \in 1..j - 2 : appended[h] \in IdentChars \cup {" "}]_vars

\* the attribute keyed a"< with the value "<> has been emitted with two quotes only
C11_Witness ==
  /\ handed.called
  /\ elements = El(Str(sA), Map(<<Entry(sBroken, Str(<<"\"", "<", ">">>))>>),
                   Absent, Absent, Absent, Absent)
  /\ occurrences(handed.strings[1], "\"") = 2
  /\ occurrences(handed.strings[1], "<") = 2
  /\ occurrences(handed.strings[1], ">") = 2

====
